---- MODULE Spec2Model ----
(***************************************************************************)
(* Mergington High School activities API (src/src/app.py).                 *)
(*                                                                         *)
(* The program state is the module-level dict `activities`.  Four request  *)
(* handlers read or mutate it: root, get_activities, signup_for_activity   *)
(* and remove_participant.  Three specifications are given:                *)
(*   Spec      requests served one after another (each handler atomic);    *)
(*   SpecCap   a run of signups for one activity, past its capacity;       *)
(*   SpecConc  requests served by concurrent worker threads, a handler     *)
(*             being the sequence of its statements (the handlers are      *)
(*             plain `def` functions and take no lock).                    *)
(***************************************************************************)
EXTENDS Naturals, Sequences, FiniteSets, TLC

VARIABLES
    activities,   \* the dict `activities`: name -> activity record
    last,         \* the most recent request served, with its response
    earlier,      \* the request served before `last`
    threads       \* SpecConc: each worker thread's request and position

vars == <<activities, last, earlier, threads>>

----------------------------------------------------------------------------
(* Bounds of the model *)

\* emails of requests in Spec that are not in the seed directory
NumNewEmails == 1

\* students who sign up in SpecCap, beyond the seeded participants
NumStudents == 12

\* worker threads serving requests concurrently in SpecConc
NumThreads == 2

----------------------------------------------------------------------------
(* The seed directory *)

Activity(description, schedule, max_participants, participants) ==
    [description |-> description, schedule |-> schedule,
     max_participants |-> max_participants, participants |-> participants]

SeedActivities ==
    ("Chess Club" :> Activity(
        "Learn strategies and compete in chess tournaments",
        "Fridays, 3:30 PM - 5:00 PM", 12,
        <<"michael@mergington.edu", "daniel@mergington.edu">>))
 @@ ("Programming Class" :> Activity(
        "Learn programming fundamentals and build software projects",
        "Tuesdays and Thursdays, 3:30 PM - 4:30 PM", 20,
        <<"emma@mergington.edu", "sophia@mergington.edu">>))
 @@ ("Gym Class" :> Activity(
        "Physical education and sports activities",
        "Mondays, Wednesdays, Fridays, 2:00 PM - 3:00 PM", 30,
        <<"john@mergington.edu", "olivia@mergington.edu">>))
 @@ ("Soccer Team" :> Activity(
        "Practice soccer skills and compete with other schools",
        "Tuesdays, 4:00 PM - 5:30 PM", 18, <<>>))
 @@ ("Basketball Team" :> Activity(
        "Train and play competitive basketball games",
        "Thursdays, 4:00 PM - 5:30 PM", 15, <<>>))
 @@ ("Art Club" :> Activity(
        "Create paintings, drawings, and digital art",
        "Wednesdays, 3:30 PM - 5:00 PM", 16, <<>>))
 @@ ("Drama Club" :> Activity(
        "Acting, improvisation, and stage performances",
        "Mondays, 4:00 PM - 5:30 PM", 14, <<>>))
 @@ ("Math Club" :> Activity(
        "Solve challenging math problems and puzzles",
        "Fridays, 2:30 PM - 3:30 PM", 12, <<>>))
 @@ ("Robotics Club" :> Activity(
        "Build and program robots",
        "Thursdays, 3:30 PM - 5:00 PM", 12, <<>>))

----------------------------------------------------------------------------
(* Python list operations used by the handlers *)

\* `x in seq`
Contains(seq, x) == \E i \in 1..Len(seq) : seq[i] = x

\* `seq.count(x)`
Count(seq, x) == Cardinality({i \in 1..Len(seq) : seq[i] = x})

\* index of the first occurrence of x in seq (x occurs in seq)
FirstIndex(seq, x) ==
    CHOOSE i \in 1..Len(seq) :
        seq[i] = x /\ \A j \in 1..(i - 1) : seq[j] # x

\* ListRemove as `seq.pop(0)`: the first entry is deleted, whatever x is
ListPopFront(seq, x) ==
    [i \in 1..(Len(seq) - 1) |-> seq[i + 1]]

\* ListRemove as a swap-remove: the last entry is moved into the freed slot
ListSwapRemove(seq, x) ==
    LET k == FirstIndex(seq, x)
    IN  [i \in 1..(Len(seq) - 1) |-> IF i = k THEN seq[Len(seq)] ELSE seq[i]]

\* the list after `seq.remove(x)`: the first occurrence of x is deleted
\* (x occurs in seq; Python raises ValueError otherwise)
ListRemove(seq, x) ==
    LET k == FirstIndex(seq, x)
    IN  [i \in 1..(Len(seq) - 1) |-> IF i < k THEN seq[i] ELSE seq[i + 1]]

----------------------------------------------------------------------------
(* Responses *)

\* HTTPException(status_code=404, detail=...)
HTTPException(status_code, detail) ==
    [status_code |-> status_code, body |-> [detail |-> detail]]

\* a returned dict, sent with status 200
Ok(body) == [status_code |-> 200, body |-> body]

----------------------------------------------------------------------------
(* The handlers: the directory after the call, and the response *)

root ==
    [status_code |-> 307, body |-> [location |-> "/static/index.html"]]

get_activities(acts) == Ok(acts)

\* signup_for_activity without the membership check of line 115
signup_without_membership_check(acts, activity_name, email) ==
    IF activity_name \notin DOMAIN acts
    THEN [activities |-> acts,
          response |-> HTTPException(404, "Activity not found")]
    ELSE [activities |->
              [acts EXCEPT ![activity_name].participants = Append(@, email)],
          response |-> Ok([message |->
              "Signed up " \o email \o " for " \o activity_name])]

\* signup_for_activity with `insert(0, email)` for `append(email)`
signup_inserts_first(acts, activity_name, email) ==
    IF activity_name \notin DOMAIN acts
    THEN [activities |-> acts,
          response |-> HTTPException(404, "Activity not found")]
    ELSE IF Contains(acts[activity_name].participants, email)
    THEN [activities |-> acts,
          response |-> Ok([message |->
                           "Student already signed up for this activity"])]
    ELSE [activities |->
              [acts EXCEPT ![activity_name].participants = <<email>> \o @],
          response |-> Ok([message |->
              "Signed up " \o email \o " for " \o activity_name])]

\* signup_for_activity raising 400 for a student already signed up
signup_rejects_duplicate(acts, activity_name, email) ==
    IF activity_name \notin DOMAIN acts
    THEN [activities |-> acts,
          response |-> HTTPException(404, "Activity not found")]
    ELSE IF Contains(acts[activity_name].participants, email)
    THEN [activities |-> acts,
          response |-> HTTPException(400, "Student is already signed up")]
    ELSE [activities |->
              [acts EXCEPT ![activity_name].participants = Append(@, email)],
          response |-> Ok([message |->
              "Signed up " \o email \o " for " \o activity_name])]

\* signup_for_activity creating the activity when the name is unknown
signup_creates_activity(acts, activity_name, email) ==
    IF activity_name \notin DOMAIN acts
    THEN [activities |->
              acts @@ (activity_name :> Activity("", "", 0, <<email>>)),
          response |-> Ok([message |->
              "Signed up " \o email \o " for " \o activity_name])]
    ELSE IF Contains(acts[activity_name].participants, email)
    THEN [activities |-> acts,
          response |-> Ok([message |->
                           "Student already signed up for this activity"])]
    ELSE [activities |->
              [acts EXCEPT ![activity_name].participants = Append(@, email)],
          response |-> Ok([message |->
              "Signed up " \o email \o " for " \o activity_name])]

\* signup_for_activity refusing a signup once the activity is full
signup_enforces_capacity(acts, activity_name, email) ==
    IF activity_name \notin DOMAIN acts
    THEN [activities |-> acts,
          response |-> HTTPException(404, "Activity not found")]
    ELSE IF Contains(acts[activity_name].participants, email)
    THEN [activities |-> acts,
          response |-> Ok([message |->
                           "Student already signed up for this activity"])]
    ELSE IF Len(acts[activity_name].participants)
                >= acts[activity_name].max_participants
    THEN [activities |-> acts,
          response |-> HTTPException(400, "Activity is full")]
    ELSE [activities |->
              [acts EXCEPT ![activity_name].participants = Append(@, email)],
          response |-> Ok([message |->
              "Signed up " \o email \o " for " \o activity_name])]

signup_for_activity(acts, activity_name, email) ==
    IF activity_name \notin DOMAIN acts
    THEN [activities |-> acts,
          response |-> HTTPException(404, "Activity not found")]
    ELSE IF Contains(acts[activity_name].participants, email)
    THEN [activities |-> acts,
          response |-> Ok([message |->
                           "Student already signed up for this activity"])]
    ELSE [activities |->
              [acts EXCEPT ![activity_name].participants = Append(@, email)],
          response |-> Ok([message |->
              "Signed up " \o email \o " for " \o activity_name])]

\* remove_participant reporting success for an email that is not registered
remove_ignores_missing(acts, activity_name, email) ==
    IF activity_name \notin DOMAIN acts
    THEN [activities |-> acts,
          response |-> HTTPException(404, "Activity not found")]
    ELSE IF ~Contains(acts[activity_name].participants, email)
    THEN [activities |-> acts,
          response |-> Ok([message |->
              "Removed " \o email \o " from " \o activity_name])]
    ELSE [activities |->
              [acts EXCEPT ![activity_name].participants =
                               ListRemove(@, email)],
          response |-> Ok([message |->
              "Removed " \o email \o " from " \o activity_name])]

remove_participant(acts, activity_name, email) ==
    IF activity_name \notin DOMAIN acts
    THEN [activities |-> acts,
          response |-> HTTPException(404, "Activity not found")]
    ELSE IF ~Contains(acts[activity_name].participants, email)
    THEN [activities |-> acts,
          response |-> HTTPException(404,
                           "Participant not found in this activity")]
    ELSE [activities |->
              [acts EXCEPT ![activity_name].participants =
                               ListRemove(@, email)],
          response |-> Ok([message |->
              "Removed " \o email \o " from " \o activity_name])]

----------------------------------------------------------------------------
(* Requests served one after another *)

\* activity names tried by requests: two seeded activities and a missing one
ActivityNames == {"Chess Club", "Soccer Team", "Nonexistent Club"}

\* the i-th email that is not in the seed directory
NewEmail(i) == "new" \o ToString(i) \o "@x.edu"

\* emails tried by requests: a seeded Chess Club member and the new ones
Emails == {"michael@mergington.edu"} \cup {NewEmail(i) : i \in 1..NumNewEmails}

Call(method, activity_name, email, response, before) ==
    [method |-> method, activity_name |-> activity_name, email |-> email,
     status_code |-> response.status_code, body |-> response.body,
     before |-> before]

NoCall ==
    [method |-> "none", activity_name |-> "", email |-> "",
     status_code |-> 0, body |-> [message |-> ""], before |-> SeedActivities]

IdleThread ==
    [pc |-> "idle", method |-> "none", activity_name |-> "", email |-> "",
     status_code |-> 0, body |-> [message |-> ""]]

Threads == 1..NumThreads

Init ==
    /\ activities = SeedActivities
    /\ last = NoCall
    /\ earlier = NoCall
    /\ threads = [t \in Threads |-> IdleThread]

Root ==
    /\ last' = Call("root", "", "", root, activities)
    /\ earlier' = last
    /\ UNCHANGED <<activities, threads>>

GetActivities ==
    /\ last' = Call("get_activities", "", "", get_activities(activities),
                    activities)
    /\ earlier' = last
    /\ UNCHANGED <<activities, threads>>

Signup(activity_name, email) ==
    LET r == signup_for_activity(activities, activity_name, email)
    IN  /\ activities' = r.activities
        /\ last' = Call("signup", activity_name, email, r.response,
                        activities)
        /\ earlier' = last
        /\ UNCHANGED threads

Remove(activity_name, email) ==
    LET r == remove_participant(activities, activity_name, email)
    IN  /\ activities' = r.activities
        /\ last' = Call("remove", activity_name, email, r.response,
                        activities)
        /\ earlier' = last
        /\ UNCHANGED threads

Next ==
    \/ Root
    \/ GetActivities
    \/ \E activity_name \in ActivityNames, email \in Emails :
           Signup(activity_name, email)
    \/ \E activity_name \in ActivityNames, email \in Emails :
           Remove(activity_name, email)

Spec == Init /\ [][Next]_vars

----------------------------------------------------------------------------
(* Properties of requests served one after another *)

\* the roster of activity a in directory acts
Roster(acts, a) == acts[a].participants

\* the last request was `method` on an activity that exists
LastOn(method) ==
    /\ last.method = method
    /\ last.activity_name \in DOMAIN last.before

\* C1: in every state reached from the seed by signup and remove calls, no
\* email appears more than once in any activity's participants.
NoDuplicateParticipants ==
    \A a \in DOMAIN activities :
        \A i, j \in 1..Len(Roster(activities, a)) :
            Roster(activities, a)[i] = Roster(activities, a)[j] => i = j

\* C1 witness: a second signup of the same new email was served and the
\* email is in the roster exactly once.
DuplicateSignupServed ==
    /\ LastOn("signup") /\ earlier.method = "signup"
    /\ earlier.activity_name = last.activity_name
    /\ earlier.email = last.email
    /\ ~Contains(Roster(earlier.before, last.activity_name), last.email)
    /\ Count(Roster(activities, last.activity_name), last.email) = 1

\* C2: signup(A, e) of an email not in A.participants succeeds and appends e
\* as the last element: the length grows by exactly 1, the prior entries keep
\* their order, and the listing that follows shows e exactly once.
SignupAppends ==
    (LastOn("signup")
        /\ ~Contains(Roster(last.before, last.activity_name), last.email))
    => LET old == Roster(last.before, last.activity_name)
           new == Roster(activities, last.activity_name)
           listed == Roster(get_activities(activities).body,
                            last.activity_name)
       IN  /\ last.status_code = 200
           /\ last.body = [message |-> "Signed up " \o last.email
                                       \o " for " \o last.activity_name]
           /\ Len(new) = Len(old) + 1
           /\ new[Len(new)] = last.email
           /\ SubSeq(new, 1, Len(old)) = old
           /\ new = Append(old, last.email)
           /\ Count(listed, last.email) = 1

\* C2 witness: new1@x.edu has just been signed up for Chess Club, whose roster
\* was the seeded one.
NewSignupServed ==
    /\ LastOn("signup")
    /\ last.activity_name = "Chess Club" /\ last.email = NewEmail(1)
    /\ Roster(last.before, "Chess Club")
           = <<"michael@mergington.edu", "daniel@mergington.edu">>
    /\ Roster(activities, "Chess Club")
           = <<"michael@mergington.edu", "daniel@mergington.edu",
               NewEmail(1)>>

\* C3: signup is idempotent: a signup of an email already in A.participants
\* returns success and modifies nothing, and signup(A, e) served twice in a
\* row leaves the directory as the first call left it.
SignupIdempotent ==
    /\ (LastOn("signup")
           /\ Contains(Roster(last.before, last.activity_name), last.email))
       => /\ last.status_code = 200
          /\ last.body =
                 [message |-> "Student already signed up for this activity"]
          /\ activities = last.before
    /\ (LastOn("signup") /\ earlier.method = "signup"
           /\ earlier.activity_name = last.activity_name
           /\ earlier.email = last.email)
       => /\ earlier.status_code = 200 /\ last.status_code = 200
          /\ activities = last.before
          /\ activities =
                 signup_for_activity(earlier.before, earlier.activity_name,
                                     earlier.email).activities

\* C3 witness: the same new signup was served twice in a row; the first call
\* appended, the second reported the student as already signed up.
SignupTwiceServed ==
    /\ LastOn("signup") /\ earlier.method = "signup"
    /\ earlier.activity_name = last.activity_name
    /\ earlier.email = last.email
    /\ Len(Roster(last.before, last.activity_name))
           = Len(Roster(earlier.before, last.activity_name)) + 1
    /\ last.body = [message |-> "Student already signed up for this activity"]

\* the last two requests were signup(A, e) then remove(A, e), A existing
SignupThenRemove ==
    /\ earlier.method = "signup" /\ LastOn("remove")
    /\ earlier.activity_name = last.activity_name
    /\ earlier.email = last.email

\* what the round trip promises: the roster is back to what it was before
\* the signup, and one more remove(A, e) fails with ParticipantNotFound
RoundTripRestores ==
    /\ last.status_code = 200
    /\ Roster(activities, last.activity_name)
           = Roster(earlier.before, last.activity_name)
    /\ remove_participant(activities, last.activity_name,
                          last.email).response
           = HTTPException(404, "Participant not found in this activity")

\* C4 as claimed: for every existing activity A and every email e,
\* signup(A, e) followed by remove(A, e) restores A.participants to what it
\* was before the signup, and a further remove(A, e) fails with
\* ParticipantNotFound.
RoundTripAnyEmail == SignupThenRemove => RoundTripRestores

\* C4 as amended: the same, for every email e that was not in A.participants
\* before the signup.
RoundTripNewEmail ==
    (SignupThenRemove
        /\ ~Contains(Roster(earlier.before, last.activity_name), last.email))
    => RoundTripRestores

\* C4 witness: a new email was signed up for a non-empty roster and then
\* removed.
RoundTripServed ==
    /\ SignupThenRemove
    /\ ~Contains(Roster(earlier.before, last.activity_name), last.email)
    /\ Len(Roster(earlier.before, last.activity_name)) > 0
    /\ Len(Roster(last.before, last.activity_name))
           = Len(Roster(earlier.before, last.activity_name)) + 1
    /\ last.status_code = 200

\* C5: remove(A, e) of an email in A.participants succeeds; afterwards e does
\* not occur in A.participants, the length has dropped by exactly 1, and the
\* other entries remain in their previous relative order.
RemoveDeletes ==
    (LastOn("remove")
        /\ Contains(Roster(last.before, last.activity_name), last.email))
    => LET old == Roster(last.before, last.activity_name)
           new == Roster(activities, last.activity_name)
       IN  /\ last.status_code = 200
           /\ last.body = [message |-> "Removed " \o last.email
                                       \o " from " \o last.activity_name]
           /\ ~Contains(new, last.email)
           /\ Len(new) = Len(old) - 1
           /\ new = SelectSeq(old, LAMBDA x : x # last.email)

\* C5 witness: an email that was neither first nor last in a roster of three
\* has been removed.
MiddleRemoveServed ==
    /\ LastOn("remove") /\ last.status_code = 200
    /\ Len(Roster(last.before, last.activity_name)) = 3
    /\ Roster(last.before, last.activity_name)[2] = last.email
    /\ Len(Roster(activities, last.activity_name)) = 2

\* C6: signup and remove fail with 404 "Activity not found" exactly when A
\* is not a key of the directory, whatever the email; remove on an existing
\* A fails with 404 "Participant not found in this activity" exactly when e
\* is not in A.participants; a failed call leaves the directory as it was.
ErrorOutcomes ==
    /\ last.method \in {"signup", "remove"}
       => /\ last.status_code \in {200, 404}
          /\ (last.status_code = 404
                 /\ last.body = [detail |-> "Activity not found"])
             <=> last.activity_name \notin DOMAIN last.before
          /\ last.status_code = 404 => activities = last.before
    /\ LastOn("signup") => last.status_code = 200
    /\ LastOn("remove")
       => /\ (last.status_code = 404
                 /\ last.body =
                        [detail |-> "Participant not found in this activity"])
             <=> ~Contains(Roster(last.before, last.activity_name),
                           last.email)
          /\ last.status_code = 200
             <=> Contains(Roster(last.before, last.activity_name),
                          last.email)

\* C6 witness: a remove failed with ParticipantNotFound right after a signup
\* failed with ActivityNotFound, on a directory that differs from the seed.
ErrorsServed ==
    /\ earlier.method = "signup" /\ earlier.status_code = 404
    /\ earlier.body = [detail |-> "Activity not found"]
    /\ LastOn("remove") /\ last.status_code = 404
    /\ last.body = [detail |-> "Participant not found in this activity"]
    /\ activities # SeedActivities

\* C7: signup(A, e) and remove(A, e) change at most A.participants: the set
\* of activity names, every description, schedule and max_participants, and
\* every other activity's participants are unchanged by every operation, and
\* get_activities and root change nothing.
FrameCondition ==
    /\ DOMAIN activities = DOMAIN last.before
    /\ \A a \in DOMAIN activities \cap DOMAIN last.before :
           /\ activities[a].description = last.before[a].description
           /\ activities[a].schedule = last.before[a].schedule
           /\ activities[a].max_participants
                  = last.before[a].max_participants
           /\ DOMAIN activities[a] = DOMAIN last.before[a]
           /\ a # last.activity_name
              => Roster(activities, a) = Roster(last.before, a)
    /\ last.method \in {"root", "get_activities"}
       => activities = last.before

\* C7 witness: a signup changed the Soccer Team roster while the Chess Club
\* roster, changed by an earlier call, stayed as it was.
FrameServed ==
    /\ LastOn("signup") /\ last.activity_name = "Soccer Team"
    /\ Roster(activities, "Soccer Team") # Roster(last.before, "Soccer Team")
    /\ Roster(activities, "Chess Club") # Roster(SeedActivities, "Chess Club")
    /\ earlier.method = "get_activities"

----------------------------------------------------------------------------
(* A run of signups for one activity, past its capacity *)

\* the activity the students sign up for (max_participants 12, two seeded)
CapActivity == "Chess Club"

\* the i-th student's email
Student(i) == "student" \o ToString(i) \o "@mergington.edu"

\* students 1..i-1 are all on the roster: student i is the next new student,
\* or one already signed up
Enrolled(i) ==
    \A j \in 1..(i - 1) : Contains(Roster(activities, CapActivity), Student(j))

\* the students sign up in order; any student may try again
SignupNext ==
    \E i \in 1..NumStudents :
        /\ Enrolled(i)
        /\ Signup(CapActivity, Student(i))

\* the student who signed up most recently leaves
RemoveLatest ==
    \E i \in 1..NumStudents :
        /\ Enrolled(i + 1)
        /\ ~Contains(Roster(activities, CapActivity), Student(i + 1))
        /\ Remove(CapActivity, Student(i))

NextCap == SignupNext \/ RemoveLatest

SpecCap == Init /\ [][NextCap]_vars

\* C9: signup does not enforce capacity: a signup of an email not in
\* A.participants succeeds and appends it whatever max_participants is, also
\* when the roster already holds max_participants entries or more.
CapacityNotEnforced ==
    (LastOn("signup")
        /\ ~Contains(Roster(last.before, last.activity_name), last.email))
    => LET old == Roster(last.before, last.activity_name)
           max == last.before[last.activity_name].max_participants
       IN  /\ last.status_code = 200
           /\ Roster(activities, last.activity_name)
                  = Append(old, last.email)
           /\ Len(old) >= max
              => Len(Roster(activities, last.activity_name)) > max

\* C9 witness: a signup was served for a full activity, which now has more
\* participants than max_participants.
OverCapacityReached ==
    /\ LastOn("signup") /\ last.status_code = 200
    /\ Len(Roster(last.before, last.activity_name))
           >= last.before[last.activity_name].max_participants
    /\ Len(Roster(activities, last.activity_name))
           > activities[last.activity_name].max_participants

----------------------------------------------------------------------------
(* Requests served by concurrent worker threads.  A `def` handler runs in a *)
(* worker thread; the interpreter may switch threads between two           *)
(* statements, so a handler is the sequence of its statements: the         *)
(* activity check, the membership check, and the list mutation.            *)

ConcActivityNames == {"Chess Club", "Nonexistent Club"}

ConcEmails == {"michael@mergington.edu", NewEmail(1)}

Finish(t, response) ==
    threads' = [threads EXCEPT ![t].pc = "done",
                               ![t].status_code = response.status_code,
                               ![t].body = response.body]

Goto(t, pc) == threads' = [threads EXCEPT ![t].pc = pc]

\* a request arrives and is handed to an idle worker thread
Receive(t, method, activity_name, email) ==
    /\ threads[t].pc = "idle"
    /\ threads' = [threads EXCEPT ![t].pc = "check_activity",
                                  ![t].method = method,
                                  ![t].activity_name = activity_name,
                                  ![t].email = email]
    /\ UNCHANGED <<activities, last, earlier>>

\* `if activity_name not in activities: raise HTTPException(404, ...)`
CheckActivity(t) ==
    /\ threads[t].pc = "check_activity"
    /\ IF threads[t].activity_name \notin DOMAIN activities
       THEN Finish(t, HTTPException(404, "Activity not found"))
       ELSE Goto(t, "check_participant")
    /\ UNCHANGED <<activities, last, earlier>>

\* signup: `if email in activity["participants"]: return ...`
\* remove: `if email not in activity["participants"]: raise ...`
CheckParticipant(t) ==
    /\ threads[t].pc = "check_participant"
    /\ LET present == Contains(Roster(activities, threads[t].activity_name),
                               threads[t].email)
       IN  IF threads[t].method = "signup"
           THEN IF present
                THEN Finish(t, Ok([message |->
                         "Student already signed up for this activity"]))
                ELSE Goto(t, "mutate")
           ELSE IF ~present
                THEN Finish(t, HTTPException(404,
                         "Participant not found in this activity"))
                ELSE Goto(t, "mutate")
    /\ UNCHANGED <<activities, last, earlier>>

\* signup: `activity["participants"].append(email)`
\* remove: `activity["participants"].remove(email)`, which raises ValueError
\* when email is not in the list; the server answers an unhandled exception
\* with 500
Mutate(t) ==
    /\ threads[t].pc = "mutate"
    /\ LET a == threads[t].activity_name
           e == threads[t].email
       IN  IF threads[t].method = "signup"
           THEN /\ activities' =
                       [activities EXCEPT ![a].participants = Append(@, e)]
                /\ Finish(t, Ok([message |->
                       "Signed up " \o e \o " for " \o a]))
           ELSE IF Contains(Roster(activities, a), e)
           THEN /\ activities' =
                       [activities EXCEPT ![a].participants =
                                              ListRemove(@, e)]
                /\ Finish(t, Ok([message |->
                       "Removed " \o e \o " from " \o a]))
           ELSE /\ activities' = activities
                /\ Finish(t, [status_code |-> 500,
                              body |-> [detail |-> "Internal Server Error"]])
    /\ UNCHANGED <<last, earlier>>

NextConc ==
    \/ \E t \in Threads, method \in {"signup", "remove"},
          activity_name \in ConcActivityNames, email \in ConcEmails :
           Receive(t, method, activity_name, email)
    \/ \E t \in Threads : CheckActivity(t)
    \/ \E t \in Threads : CheckParticipant(t)
    \/ \E t \in Threads : Mutate(t)

SpecConc == Init /\ [][NextConc]_vars

\* the handler a thread's request names, as one atomic step
Serve(acts, request) ==
    IF request.method = "signup"
    THEN signup_for_activity(acts, request.activity_name,
                             request.email).activities
    ELSE remove_participant(acts, request.activity_name,
                            request.email).activities

\* the directory after the threads' requests are served one after another,
\* from directory acts, in the order order[1], order[2], ...
RECURSIVE ServeInOrder(_, _, _)
ServeInOrder(acts, order, n) ==
    IF n = 0 THEN acts
    ELSE Serve(ServeInOrder(acts, order, n - 1), threads[order[n]])

\* the directories some serial order of the threads' requests ends in
SerialOutcomes ==
    {ServeInOrder(SeedActivities, order, NumThreads) :
         order \in Permutations(Threads)}

AllDone == \A t \in Threads : threads[t].pc = "done"

\* C8: each signup/remove check-then-write is atomic with respect to
\* concurrent requests: once the concurrent requests are served, the
\* directory is the result of serving them in some serial order, so no
\* roster holds an email twice and no update is lost.
AtomicCheckThenWrite ==
    AllDone => (activities \in SerialOutcomes /\ NoDuplicateParticipants)

\* C10: every remove request ends in success, ActivityNotFound or
\* ParticipantNotFound, also under concurrency: no remove request is at its
\* list-removal step while its email is not in the roster.
RemoveOutcomes ==
    \A t \in Threads :
        threads[t].method = "remove"
        => /\ threads[t].pc = "mutate"
              => Contains(Roster(activities, threads[t].activity_name),
                          threads[t].email)
           /\ threads[t].pc = "done"
              => \/ threads[t].status_code = 200
                 \/ /\ threads[t].status_code = 404
                    /\ threads[t].body \in
                           {[detail |-> "Activity not found"],
                            [detail |->
                                 "Participant not found in this activity"]}

====
